---- MODULE Spec2Model ----
(***************************************************************************)
(* FauxFoundry generation pipeline: the orchestrator loop (runGeneration),  *)
(* the retry engine (TimeoutHandler.GenerateWithRetry), the canonical       *)
(* deduplicator (dedup.Deduplicator) and the buffered output sink           *)
(* (output.StreamingWriter over output.JSONLWriter).                        *)
(*                                                                         *)
(* Two specifications share the module:                                    *)
(*   Spec       one run of runGeneration against a nondeterministic        *)
(*              backend, deadline and output device;                       *)
(*   DedupSpec  one Deduplicator fed sequences of IsUnique calls on        *)
(*              records drawn from a bounded set of structured values.     *)
(***************************************************************************)
EXTENDS Integers, Sequences, FiniteSets, TLC

(***************************************************************************)
(* Record values.  types.Record is map[string]interface{}; a value is a    *)
(* tagged variant [k, v].  Text is a sequence of byte codes so that        *)
(* trimming, ordering and serialisation are computed, not assumed.         *)
(*   string   v = sequence of byte codes                                   *)
(*   int      v = the Go int (only fallback synthesis produces these)      *)
(*   float64  v = the number of halves (3 is 1.5, 2 is 1.0)                *)
(*   bool     v = TRUE / FALSE                                             *)
(*   nil      v = 0                                                        *)
(*   nan      v = 0: the float64 NaN, which encoding/json refuses to       *)
(*                serialise (kept apart from float64 so that the number    *)
(*                formatting stays arithmetic)                             *)
(*   list     v = sequence of values        ([]interface{})                *)
(*   map      v = sequence of <<key, value>> pairs with distinct keys, in  *)
(*                the order the map is iterated (Go leaves it arbitrary)   *)
(***************************************************************************)
StrV(s) == [k |-> "string", v |-> s]
IntV(n) == [k |-> "int", v |-> n]
FltV(h) == [k |-> "float64", v |-> h]
BoolV(b) == [k |-> "bool", v |-> b]
NullV == [k |-> "nil", v |-> 0]
NaNV == [k |-> "nan", v |-> 0]
ListV(xs) == [k |-> "list", v |-> xs]
ObjV(ps) == [k |-> "map", v |-> ps]

\* Byte codes of the characters the model uses.
Ch == [sp |-> 32, tab |-> 9, nl |-> 10, quote |-> 34, comma |-> 44, dot |-> 46,
       zero |-> 48, one |-> 49, five |-> 53, colon |-> 58, lbrack |-> 91,
       bslash |-> 92, rbrack |-> 93, a |-> 97, b |-> 98, lbrace |-> 123,
       rbrace |-> 125]

\* "true", "false" and "null" as byte codes.
TextTrue == <<116, 114, 117, 101>>
TextFalse == <<102, 97, 108, 115, 101>>
TextNull == <<110, 117, 108, 108>>
\* "NaN", "<nil>" and "map[" as byte codes.
TextNaN == <<78, 97, 78>>
TextNil == <<60, 110, 105, 108, 62>>
TextMapOpen == <<109, 97, 112, 91>>

\* unicode.IsSpace restricted to the single-byte code points.
IsSpace(c) == c \in {9, 10, 11, 12, 13, 32, 133, 160}

RECURSIVE TrimLeft(_)
TrimLeft(s) ==
    IF s = <<>> THEN <<>>
    ELSE IF IsSpace(Head(s)) THEN TrimLeft(Tail(s)) ELSE s

RECURSIVE TrimRight(_)
TrimRight(s) ==
    IF s = <<>> THEN <<>>
    ELSE IF IsSpace(s[Len(s)]) THEN TrimRight(SubSeq(s, 1, Len(s) - 1)) ELSE s

\* A trim that forgets the trailing side.
TrimSpaceLeadingOnly(s) == TrimLeft(s)

\* strings.TrimSpace
TrimSpace(s) == TrimRight(TrimLeft(s))

\* Go's < on strings: bytewise lexicographic, a proper prefix is smaller.
RECURSIVE StringLess(_, _)
StringLess(x, y) ==
    IF y = <<>> THEN FALSE
    ELSE IF x = <<>> THEN TRUE
    ELSE IF Head(x) # Head(y) THEN Head(x) < Head(y)
    ELSE StringLess(Tail(x), Tail(y))

\* Decimal digits of a natural number.
RECURSIVE FormatNat(_)
FormatNat(n) ==
    IF n < 10 THEN <<48 + n>>
    ELSE FormatNat(n \div 10) \o <<48 + (n % 10)>>

\* Shortest decimal form of h/2 (strconv 'g' / encoding/json agree on it here).
FormatHalves(h) ==
    IF h % 2 = 0 THEN FormatNat(h \div 2)
    ELSE FormatNat(h \div 2) \o <<Ch.dot, Ch.five>>

\* fmt.Sprintf("%v", x) for the element types isComparableArray admits.
Sprintv(x) ==
    CASE x.k = "string" -> x.v
      [] x.k = "int" -> FormatNat(x.v)
      [] x.k = "float64" -> FormatHalves(x.v)
      [] x.k = "bool" -> (IF x.v THEN TextTrue ELSE TextFalse)
      [] x.k = "nan" -> TextNaN
      [] OTHER -> <<>>

\* isComparableArray: every element is a string, int, int64, float64 or bool.
isComparableArray(arr) ==
    \A i \in 1..Len(arr) : arr[i].k \in {"string", "int", "float64", "nan", "bool"}

\* Insert the keyed element x = <<key, item>> into the sorted sequence s, after
\* every element whose key is not greater (insertion sort: what sort.Slice and
\* sort.Strings run on slices shorter than 12; it leaves elements the
\* comparison cannot tell apart in their input order).
RECURSIVE InsertSorted(_, _)
InsertSorted(x, s) ==
    IF s = <<>> THEN <<x>>
    ELSE IF StringLess(x[1], s[Len(s)][1])
         THEN InsertSorted(x, SubSeq(s, 1, Len(s) - 1)) \o <<s[Len(s)]>>
         ELSE s \o <<x>>

RECURSIVE InsertionSort(_)
InsertionSort(s) ==
    IF s = <<>> THEN <<>>
    ELSE InsertSorted(s[Len(s)], InsertionSort(SubSeq(s, 1, Len(s) - 1)))

\* sort.Slice(canonical, less) with less comparing the %v projections.
SortByProjection(arr) ==
    LET keyed == InsertionSort([i \in 1..Len(arr) |-> <<Sprintv(arr[i]), arr[i]>>])
    IN  [i \in 1..Len(keyed) |-> keyed[i][2]]

\* An array step that reverses a comparable array instead of sorting it.
sortComparable_Reversing(canonical) ==
    IF isComparableArray(canonical)
    THEN [i \in 1..Len(canonical) |-> canonical[Len(canonical) + 1 - i]]
    ELSE canonical

\* dedup.go 124-129: sort the canonicalised array when it is comparable.
sortComparable(canonical) ==
    IF isComparableArray(canonical)
    THEN SortByProjection(canonical)
    ELSE canonical

\* A key ordering that leaves the pairs in the order the map was iterated.
SortPairs_IterationOrder(ps) == ps

\* sort.Strings on the keys, carried on the <<key, value>> pairs.
SortPairs(ps) == InsertionSort(ps)

\* A string canonicalisation that keeps trailing whitespace.
canonicalString_LeadingOnly(s) == TrimSpaceLeadingOnly(s)

\* dedup.go 108-111: the string case of canonicalizeValue.
canonicalString(s) == TrimSpace(s)

RECURSIVE canonicalizeValue(_)
RECURSIVE canonicalize(_)
\* Deduplicator.canonicalizeValue
canonicalizeValue(value) ==
    CASE value.k = "string" -> StrV(canonicalString(value.v))
      [] value.k = "map" -> ObjV(canonicalize(value.v))
      [] value.k = "list" ->
            ListV(sortComparable([i \in 1..Len(value.v) |-> canonicalizeValue(value.v[i])]))
      [] value.k = "nil" -> NullV
      [] OTHER -> value

\* Deduplicator.canonicalize: keys sorted, each value canonicalised.
canonicalize(record) ==
    LET sorted == SortPairs(record)
    IN  [i \in 1..Len(sorted) |-> <<sorted[i][1], canonicalizeValue(sorted[i][2])>>]

\* encoding/json string escaping for the bytes the model uses.
EscapeChar(c) ==
    CASE c = Ch.quote -> <<Ch.bslash, Ch.quote>>
      [] c = Ch.bslash -> <<Ch.bslash, Ch.bslash>>
      [] c = Ch.tab -> <<Ch.bslash, 116>>
      [] c = Ch.nl -> <<Ch.bslash, 110>>
      [] OTHER -> <<c>>

RECURSIVE Escape(_)
Escape(s) == IF s = <<>> THEN <<>> ELSE EscapeChar(Head(s)) \o Escape(Tail(s))

Quoted(s) == <<Ch.quote>> \o Escape(s) \o <<Ch.quote>>

RECURSIVE JoinComma(_)
JoinComma(parts) ==
    IF parts = <<>> THEN <<>>
    ELSE IF Len(parts) = 1 THEN parts[1]
    ELSE parts[1] \o <<Ch.comma>> \o JoinComma(Tail(parts))

\* json.Marshal of a value: objects with their keys sorted, no whitespace.
RECURSIVE jsonMarshalValue(_)
jsonMarshalValue(x) ==
    CASE x.k = "string" -> Quoted(x.v)
      [] x.k = "int" -> FormatNat(x.v)
      [] x.k = "float64" -> FormatHalves(x.v)
      [] x.k = "bool" -> (IF x.v THEN TextTrue ELSE TextFalse)
      [] x.k = "nil" -> TextNull
      [] x.k = "list" ->
            <<Ch.lbrack>> \o JoinComma([i \in 1..Len(x.v) |-> jsonMarshalValue(x.v[i])])
                \o <<Ch.rbrack>>
      [] x.k = "map" ->
            LET ps == SortPairs(x.v)
            IN  <<Ch.lbrace>>
                \o JoinComma([i \in 1..Len(ps) |->
                        Quoted(ps[i][1]) \o <<Ch.colon>> \o jsonMarshalValue(ps[i][2])])
                \o <<Ch.rbrace>>

\* json.Marshal returns an error (UnsupportedValueError) iff a NaN is reached.
RECURSIVE jsonSerializable(_)
jsonSerializable(x) ==
    CASE x.k = "nan" -> FALSE
      [] x.k = "list" -> \A i \in 1..Len(x.v) : jsonSerializable(x.v[i])
      [] x.k = "map" -> \A i \in 1..Len(x.v) : jsonSerializable(x.v[i][2])
      [] OTHER -> TRUE

RECURSIVE JoinSpace(_)
JoinSpace(parts) ==
    IF parts = <<>> THEN <<>>
    ELSE IF Len(parts) = 1 THEN parts[1]
    ELSE parts[1] \o <<Ch.sp>> \o JoinSpace(Tail(parts))

\* fmt.Sprintf("%v", x) for any value: maps as map[k:v k:v] with sorted keys,
\* lists as [x y].
RECURSIVE SprintvAny(_)
SprintvAny(x) ==
    CASE x.k = "nil" -> TextNil
      [] x.k = "list" ->
            <<Ch.lbrack>> \o JoinSpace([i \in 1..Len(x.v) |-> SprintvAny(x.v[i])])
                \o <<Ch.rbrack>>
      [] x.k = "map" ->
            LET ps == SortPairs(x.v)
            IN  TextMapOpen
                \o JoinSpace([i \in 1..Len(ps) |->
                        ps[i][1] \o <<Ch.colon>> \o SprintvAny(ps[i][2])])
                \o <<Ch.rbrack>>
      [] OTHER -> Sprintv(x)

\* sha256.Sum256 rendered with %x: an ideal hash, one digest per byte string.
sha256Hex(bytes) == <<"sha256", bytes>>

\* dedup.go 75-78: the digest when json.Marshal failed is the %v text itself
\* (never 64 hex digits, so it is no sha256Hex value).
fallbackHash(canonical) == <<"fmt", SprintvAny(canonical)>>

\* Deduplicator.canonicalHash
canonicalHash(record) ==
    LET canonical == ObjV(canonicalize(record))
    IN  IF jsonSerializable(canonical)
        THEN sha256Hex(jsonMarshalValue(canonical))
        ELSE fallbackHash(canonical)

(***************************************************************************)
(* Bounds of the model.                                                    *)
(***************************************************************************)
\* Largest target count (job.Progress.Target) a run is started with.
MaxTarget == 2
\* Largest configured batch size (spec.Model.BatchSize).
MaxBatch == 2
\* Largest number of records one backend response parses into.
MaxResp == 2
\* Largest --max-retries value.
MaxRetriesBound == 3
\* Largest --min-batch-size value.
MaxMinBatch == 1
\* bufferSize handed to NewStreamingWriter (the pipeline passes 100; the model
\* scales it down so that a full buffer is reached).
BufferSize == 2
\* Most duplicates the deduplicator discards before the run's deadline elapses.
MaxDuplicates == 1
\* Most IsUnique calls made on one Deduplicator in DedupSpec.
MaxCalls == 3
\* Longest list among the structured input values of DedupSpec.
MaxListLen == 2
\* Largest count argument of a GenerateWithRetry call in RetrySpec.
MaxEngineCount == 2
\* Largest batch size a GenerateWithRetry call starts with in RetrySpec.
MaxEngineBatch == 3
\* Largest MinBatchSize in RetrySpec.
MaxEngineMinBatch == 2
\* Largest MaxRetries in RetrySpec.
MaxEngineRetries == 5
\* Most records handed to one StreamingWriter in SinkSpec.
MaxSinkWrites == 3
\* Most records the output device of SinkSpec holds; writes fail once it is full.
MaxSinkOut == 4

(***************************************************************************)
(* Program constants (seconds).                                            *)
(***************************************************************************)
BaseTimeout == 30
MaxTimeout == 300
BackoffMultiplier == 2
\* simplifySpec: the temperature ceiling 0.3, in tenths.
TemperatureCap == 3
\* simplifySpec: the number of leading fields kept when none is required.
MaxKeptFields == 3

(***************************************************************************)
(* The records a backend response can carry in Spec: three canonically     *)
(* distinct records (more than the sink's buffer holds); a duplicate is a  *)
(* record that a response repeats.                                         *)
(***************************************************************************)
KeyA == <<Ch.a>>
KeyB == <<Ch.b>>
RecA == <<<<KeyA, StrV(<<Ch.one>>)>>>>
RecB == <<<<KeyA, FltV(2)>>>>
RecC == <<<<KeyA, BoolV(TRUE)>>>>
RecordPool == {RecA, RecB, RecC}

\* types.Specification as the retry engine reads it: Model.Temperature in
\* tenths, Dataset.Domain as a sequence of text pieces, Dataset.Fields as a
\* sequence of [name, required].  (Model.BatchSize is the variable cfgBatch.)
Field(name, required) == [name |-> name, required |-> required]
\* One optional field, the schema generateFallbackData is modelled for.
SpecPlain ==
    [temperature |-> 7, domain |-> <<"users">>, fields |-> <<Field("a", FALSE)>>]
\* Four fields, none required, temperature 0.7.
SpecNoRequired ==
    [temperature |-> 7, domain |-> <<"users">>,
     fields |-> <<Field("a", FALSE), Field("b", FALSE), Field("c", FALSE),
                  Field("d", FALSE)>>]
\* Two fields, the second required, temperature 0.2.
SpecRequired ==
    [temperature |-> 2, domain |-> <<"orders">>,
     fields |-> <<Field("a", FALSE), Field("b", TRUE)>>]
SpecPool == {SpecNoRequired, SpecRequired}

\* All sequences over S of length lo..hi.
SeqsOf(S, lo, hi) == UNION {[1..n -> S] : n \in lo..hi}

VARIABLES
    pc,               \* where runGeneration is: start, loop, retry, write, defer, done
    result,           \* what runGeneration returns: "none" until it returns
    target,           \* job.Progress.Target
    cfgBatch,         \* job.Spec.Model.BatchSize
    maxRetries,       \* retryConfig.MaxRetries (--max-retries)
    minBatchSize,     \* retryConfig.MinBatchSize (--min-batch-size)
    jobSpec,          \* *job.Spec, the specification handed to GenerateWithRetry
    toStdout,         \* the output path is "" or "stdout" (NewJSONLWriter)
    ctxDone,          \* the run's context deadline has elapsed
    generated,        \* runGeneration's local counter
    progress,         \* job.Progress.Generated
    count,            \* GenerateWithRetry: the count argument
    allRecords,       \* GenerateWithRetry: allRecords
    remaining,        \* GenerateWithRetry: remaining
    currentBatchSize, \* GenerateWithRetry: currentBatchSize
    attempt,          \* GenerateWithRetry: attempt
    currentTimeout,   \* GenerateWithRetry: currentTimeout
    pending,          \* uniqueRecords not yet handed to the writer
    seen,             \* Deduplicator.seen (set of digests)
    duplicateCount,   \* Deduplicator.duplicateCount
    buffer,           \* StreamingWriter.buffer
    out,              \* records the JSONLWriter has encoded to the output
    writerClosed,     \* the JSONLWriter's file has been closed
    obs,              \* observations of the run (history, read by no action)
    inputs,           \* DedupSpec: the records the calls draw from
    hist              \* DedupSpec: the IsUnique calls made so far

vars == <<pc, result, target, cfgBatch, maxRetries, minBatchSize, jobSpec, toStdout, ctxDone,
          generated, progress, count, allRecords, remaining, currentBatchSize,
          attempt, currentTimeout, pending, seen, duplicateCount, buffer, out,
          writerClosed, obs, inputs, hist>>

configVars == <<target, cfgBatch, maxRetries, minBatchSize, jobSpec, toStdout>>
episodeVars == <<count, allRecords, remaining, currentBatchSize, attempt, currentTimeout>>
dedupVars == <<seen, duplicateCount>>
sinkVars == <<buffer, out, writerClosed>>

\* obs fields:
\*   called         generateBatch has been called
\*   allOk          every generateBatch call so far returned records
\*   allTimeout     every generateBatch call so far failed with a timeout
\*   fallbackUsed   generateFallbackData has produced records
\*   firstFail      k when the k-th JSONLWriter.Write call was the first to fail
\*                  (the k-1 calls before it succeeded), 0 while none has failed
\*   retried        JSONLWriter.Write was called again after a call had failed
\*   trace          how the first generateBatch calls of the episode in
\*                  progress ended (see CallClass), oldest first, up to and
\*                  including the first call that did not time out
\*   last           how the latest generateBatch call of the episode in
\*                  progress ended, "none" before the first
\*   fails          iterations of GenerateWithRetry's loop that ended without
\*                  records since the latest one that produced some
\*   reqs           the generateBatch calls of the latest iteration, in order:
\*                  [spec, n, ok, live] = the specification and the count
\*                  passed, whether the call returned records, and whether
\*                  the context it ran on was neither cancelled nor expired
\*                  when the call was made
\* (trace, last, fails and reqs are kept when the episode ends the run,
\* cleared otherwise)
ObsInit ==
    [called |-> FALSE, allOk |-> TRUE, allTimeout |-> TRUE, fallbackUsed |-> FALSE,
     firstFail |-> 0, retried |-> FALSE, trace |-> <<>>, last |-> "none",
     fails |-> 0, reqs |-> <<>>]

PipelineInit ==
    /\ pc = "start"
    /\ result = "none"
    /\ ctxDone = FALSE
    /\ generated = 0
    /\ progress = 0
    /\ count = 0
    /\ allRecords = <<>>
    /\ remaining = 0
    /\ currentBatchSize = 0
    /\ attempt = 0
    /\ currentTimeout = BaseTimeout
    /\ pending = <<>>
    /\ seen = {}
    /\ duplicateCount = 0
    /\ buffer = <<>>
    /\ out = <<>>
    /\ writerClosed = FALSE
    /\ obs = ObsInit
    /\ hist = <<>>

Init ==
    /\ PipelineInit
    /\ inputs = <<>>
    /\ target \in 1..MaxTarget
    /\ cfgBatch \in 1..MaxBatch
    /\ maxRetries \in 1..MaxRetriesBound
    /\ minBatchSize \in 1..MaxMinBatch
    /\ jobSpec = SpecPlain
    /\ toStdout = FALSE

(***************************************************************************)
(* Deduplicator operations, on a deduplicator value d = [seen, dups].      *)
(***************************************************************************)
\* An IsUnique that reports but forgets to record the digest.
IsUnique_NoInsert(d, record) ==
    LET hash == canonicalHash(record)
    IN  IF hash \in d.seen
        THEN [ret |-> FALSE, d |-> [seen |-> d.seen, dups |-> d.dups + 1]]
        ELSE [ret |-> TRUE, d |-> d]

\* Deduplicator.IsUnique: the return value and the deduplicator afterwards.
IsUnique(d, record) ==
    LET hash == canonicalHash(record)
    IN  IF hash \in d.seen
        THEN [ret |-> FALSE, d |-> [seen |-> d.seen, dups |-> d.dups + 1]]
        ELSE [ret |-> TRUE, d |-> [seen |-> d.seen \cup {hash}, dups |-> d.dups]]

\* A FilterUnique that puts each survivor in front of the earlier ones.
RECURSIVE FilterUniqueFrom_Prepending(_, _, _)
FilterUniqueFrom_Prepending(d, records, unique) ==
    IF records = <<>> THEN [unique |-> unique, d |-> d]
    ELSE LET r == IsUnique(d, Head(records))
         IN  FilterUniqueFrom_Prepending(r.d, Tail(records),
                              IF r.ret THEN <<Head(records)>> \o unique ELSE unique)

FilterUnique_Prepending(d, records) == FilterUniqueFrom_Prepending(d, records, <<>>)

\* Deduplicator.FilterUnique (BatchDeduplicator.ProcessBatch calls it):
\* IsUnique in input order, survivors appended in order.
RECURSIVE FilterUniqueFrom(_, _, _)
FilterUniqueFrom(d, records, unique) ==
    IF records = <<>> THEN [unique |-> unique, d |-> d]
    ELSE LET r == IsUnique(d, Head(records))
         IN  FilterUniqueFrom(r.d, Tail(records),
                              IF r.ret THEN Append(unique, Head(records)) ELSE unique)

\* A FilterUnique that starts from a cleared deduplicator (Reset first).
FilterUnique_Resetting(d, records) ==
    FilterUniqueFrom([seen |-> {}, dups |-> 0], records, <<>>)

FilterUnique(d, records) == FilterUniqueFrom(d, records, <<>>)

(***************************************************************************)
(* Retry engine helpers.                                                   *)
(***************************************************************************)
Min(a, b) == IF a < b THEN a ELSE b
Max(a, b) == IF a > b THEN a ELSE b

\* An error is modelled by the keywords its text contains:
\*   "timeout"     timeout / deadline exceeded / context canceled
\*   "parse"       parse / json / unmarshal / invalid character
\*   "connection"  connection / network / refused / unreachable
ErrTexts == SUBSET {"timeout", "parse", "connection"}

isTimeoutError(err) == "timeout" \in err
isParsingError(err) == "parse" \in err
isConnectionError(err) == "connection" \in err

\* A strategy choice that only ever retries.
determineStrategy_RetryOnly(err, a, b) == "Retry"

\* A determineStrategy that retries a parsing error at every attempt.
determineStrategy_ParseAlwaysRetry(err, a, b) ==
    IF isTimeoutError(err)
    THEN IF a = 1 THEN "Retry"
         ELSE IF b > minBatchSize THEN "Reduce"
         ELSE "Simplify"
    ELSE "Retry"

\* A determineStrategy that treats every error as it treats a timeout.
determineStrategy_AllAsTimeout(err, a, b) ==
    IF a = 1 THEN "Retry"
    ELSE IF b > minBatchSize THEN "Reduce"
    ELSE "Simplify"

\* TimeoutHandler.determineStrategy
determineStrategy(err, a, b) ==
    IF isTimeoutError(err)
    THEN IF a = 1 THEN "Retry"
         ELSE IF b > minBatchSize THEN "Reduce"
         ELSE "Simplify"
    ELSE IF isParsingError(err)
    THEN IF a <= 2 THEN "Retry" ELSE "Simplify"
    ELSE IF isConnectionError(err) THEN "Retry"
    ELSE "Retry"

\* An increaseTimeout that leaves the timeout as it is.
increaseTimeout_NoBackoff(current) == current

\* An increaseTimeout without the MaxTimeout ceiling.
increaseTimeout_Uncapped(current) == current * BackoffMultiplier

\* TimeoutHandler.increaseTimeout
increaseTimeout(current) ==
    LET next == current * BackoffMultiplier
    IN  IF next > MaxTimeout THEN MaxTimeout ELSE next

\* A simplifySpec that edits the caller's specification in place.
simplifySpec_InPlace(spec) ==
    LET requiredFields == SelectSeq(spec.fields, LAMBDA f : f.required)
        simplified ==
            [temperature |-> Min(spec.temperature, TemperatureCap),
             domain |-> <<"Simplified ">> \o spec.domain,
             fields |-> IF requiredFields = <<>>
                        THEN SubSeq(spec.fields, 1, Min(MaxKeptFields, Len(spec.fields)))
                        ELSE requiredFields]
    IN  [spec |-> simplified, simplified |-> simplified]

\* A simplifySpec whose copy keeps every field of the original.
simplifySpec_KeepsFields(spec) ==
    [spec |-> spec,
     simplified |-> [temperature |-> Min(spec.temperature, TemperatureCap),
                     domain |-> <<"Simplified ">> \o spec.domain,
                     fields |-> spec.fields]]

\* TimeoutHandler.simplifySpec: .simplified is the copy it returns, .spec the
\* caller's specification after the call (the copy is a struct copy and the
\* only slice it writes is the copy's own header, so the original is as it was).
simplifySpec(spec) ==
    LET requiredFields == SelectSeq(spec.fields, LAMBDA f : f.required)
        simplified ==
            [temperature |-> Min(spec.temperature, TemperatureCap),
             domain |-> <<"Simplified ">> \o spec.domain,
             fields |-> IF requiredFields = <<>>
                        THEN SubSeq(spec.fields, 1, Min(MaxKeptFields, Len(spec.fields)))
                        ELSE requiredFields]
    IN  [spec |-> spec, simplified |-> simplified]

\* max(1, int(float64(currentBatchSize) * ReduceFactorOnTimeout)), factor 0.5
reduceBatchSize(b) == Max(1, b \div 2)

\* generateFallbackData for a one-field schema {a: integer}: record i carries i + 1.
generateFallbackData(n) == [i \in 1..n |-> <<<<KeyA, IntV(i)>>>>]

\* The records a response to a request for spec is made of.  The retry engine
\* never looks into a record, so for the specifications of RetrySpec one
\* record stands for all.
ResponseRecords(spec) == IF spec = SpecPlain THEN RecordPool ELSE {RecA}

\* What one call of generateBatch(ctx, spec, n) can return.  A call made on a
\* context that is already cancelled or expired fails at once with the
\* context's error.
BackendOutcomes(ctxCancelled, spec) ==
    IF ctxCancelled
    THEN {[ok |-> FALSE, records |-> <<>>, err |-> {"timeout"}]}
    ELSE {[ok |-> TRUE, records |-> rs, err |-> {}] :
             rs \in SeqsOf(ResponseRecords(spec), 1, MaxResp)}
         \cup {[ok |-> FALSE, records |-> <<>>, err |-> e] : e \in ErrTexts}

\* How a generateBatch call ended: "ok" with records, "ctx" when it was made
\* on the run's already expired context, "timeout" for any other timeout
\* error, "parse" for a parsing error that is no timeout, "error" for an
\* error of another class.
CallClass(o, expired) ==
    IF o.ok THEN "ok"
    ELSE IF expired THEN "ctx"
    ELSE IF isTimeoutError(o.err) THEN "timeout"
    ELSE IF isParsingError(o.err) THEN "parse"
    ELSE "error"

(***************************************************************************)
(* Sink helpers.                                                           *)
(***************************************************************************)
\* A Flush that writes the records out but never empties the buffer.
Flush_NeverClears(buf, n) ==
    [err |-> n < Len(buf),
     buffer |-> buf,
     emitted |-> SubSeq(buf, 1, n),
     calls |-> IF n < Len(buf) THEN n + 1 ELSE n]

\* StreamingWriter.Flush on buffer buf when the output accepts the first n
\* records and (if n < Len(buf)) fails on the next: the buffer is cleared only
\* when every record was written.
Flush(buf, n) ==
    [err |-> n < Len(buf),
     buffer |-> IF n < Len(buf) THEN buf ELSE <<>>,
     emitted |-> SubSeq(buf, 1, n),
     calls |-> IF n < Len(buf) THEN n + 1 ELSE n]

\* The observations after a Flush with result f.
ObsAfterFlush(o, f, written) ==
    [o EXCEPT !.firstFail = IF @ = 0 /\ f.err THEN written + f.calls ELSE @,
              !.retried = @ \/ (o.firstFail # 0 /\ f.calls > 0)]

(***************************************************************************)
(* runGeneration.                                                           *)
(***************************************************************************)
\* Lines 199-262: create the writer, check the backend's health and model.
Startup ==
    /\ pc = "start"
    /\ \E outcome \in {"ok", "writer_failed", "health_failed"} :
          /\ pc' = CASE outcome = "ok" -> "loop"
                     [] outcome = "writer_failed" -> "done"
                     [] OTHER -> "defer"
          /\ result' = CASE outcome = "ok" -> "none"
                         [] outcome = "writer_failed" -> "err_writer"
                         [] OTHER -> "err_health"
    /\ UNCHANGED <<configVars, ctxDone, generated, progress, episodeVars, pending,
                   dedupVars, sinkVars, obs, inputs, hist>>

\* context.WithTimeout(ctx, timeout): the run's deadline elapses.
DeadlineElapses ==
    /\ pc \in {"loop", "retry", "write"}
    /\ ~ctxDone
    /\ ctxDone' = TRUE
    /\ UNCHANGED <<pc, result, configVars, generated, progress, episodeVars, pending,
                   dedupVars, sinkVars, obs, inputs, hist>>

\* Lines 267-272: loop head with the deadline elapsed.
LoopTimeout ==
    /\ pc = "loop"
    /\ generated < target
    /\ ctxDone
    /\ result' = "err_timeout"
    /\ pc' = "defer"
    /\ UNCHANGED <<configVars, ctxDone, generated, progress, episodeVars, pending,
                   dedupVars, sinkVars, obs, inputs, hist>>

\* An episode start that inherits the batch size and the timeout the previous
\* episode ended with.
LoopRequest_KeepsEngineState ==
    /\ pc = "loop"
    /\ generated < target
    /\ ~ctxDone
    /\ duplicateCount < MaxDuplicates
    /\ LET batchSize == Min(cfgBatch, target - generated)
       IN  /\ count' = batchSize
           /\ remaining' = batchSize
    /\ allRecords' = <<>>
    /\ currentBatchSize' = IF currentBatchSize = 0 THEN cfgBatch ELSE currentBatchSize
    /\ attempt' = 0
    /\ UNCHANGED currentTimeout
    /\ pc' = "retry"
    /\ obs' = [obs EXCEPT !.trace = <<>>, !.last = "none", !.fails = 0, !.reqs = <<>>]
    /\ UNCHANGED <<result, configVars, ctxDone, generated, progress, pending,
                   dedupVars, sinkVars, inputs, hist>>

\* An episode start that asks for a full batch whatever is still missing.
LoopRequest_FullBatch ==
    /\ pc = "loop"
    /\ generated < target
    /\ ~ctxDone
    /\ duplicateCount < MaxDuplicates
    /\ count' = cfgBatch
    /\ remaining' = cfgBatch
    /\ allRecords' = <<>>
    /\ currentBatchSize' = cfgBatch
    /\ attempt' = 0
    /\ currentTimeout' = BaseTimeout
    /\ pc' = "retry"
    /\ obs' = [obs EXCEPT !.trace = <<>>, !.last = "none", !.fails = 0, !.reqs = <<>>]
    /\ UNCHANGED <<result, configVars, ctxDone, generated, progress, pending,
                   dedupVars, sinkVars, inputs, hist>>

\* Lines 274-287 and timeout.go 62-69: size the batch and enter GenerateWithRetry.
\* (Every request takes time: once MaxDuplicates records have been discarded
\* the deadline elapses before another request is made.)
LoopRequest ==
    /\ pc = "loop"
    /\ generated < target
    /\ ~ctxDone
    /\ duplicateCount < MaxDuplicates
    /\ LET batchSize == Min(cfgBatch, target - generated)
       IN  /\ count' = batchSize
           /\ remaining' = batchSize
    /\ allRecords' = <<>>
    /\ currentBatchSize' = cfgBatch
    /\ attempt' = 0
    /\ currentTimeout' = BaseTimeout
    /\ pc' = "retry"
    /\ obs' = [obs EXCEPT !.trace = <<>>, !.last = "none", !.fails = 0, !.reqs = <<>>]
    /\ UNCHANGED <<result, configVars, ctxDone, generated, progress, pending,
                   dedupVars, sinkVars, inputs, hist>>

\* A loop condition that leaves the remaining count out.
LoopCondition_IgnoresRemaining == attempt < maxRetries

\* A loop condition that leaves the attempt counter out.
LoopCondition_Unbounded == remaining > 0

\* timeout.go 71: for remaining > 0 && attempt < th.config.MaxRetries
LoopCondition == remaining > 0 /\ attempt < maxRetries

\* timeout.go 71-130: one iteration of GenerateWithRetry's loop.  o1 is what
\* generateBatch returns on batchCtx (derived from the run's context); o2 is
\* what the Simplify case's second generateBatch returns, made on the same
\* batchCtx after cancel() (line 83) has cancelled it.
Attempt ==
    /\ pc = "retry"
    /\ LoopCondition
    /\ \E o1 \in BackendOutcomes(ctxDone, jobSpec),
          o2 \in BackendOutcomes(TRUE, simplifySpec(jobSpec).simplified) :
          LET batchSize == Min(currentBatchSize, remaining)
              a == attempt + 1
              strategy == IF o1.ok THEN "none"
                          ELSE determineStrategy(o1.err, a, currentBatchSize)
              second == strategy = "Simplify"
              continues == \/ strategy \in {"Retry", "Reduce"}
                           \/ strategy = "Simplify" /\ ~o2.ok
              records == CASE o1.ok -> o1.records
                           [] strategy = "Simplify" /\ o2.ok -> o2.records
                           [] strategy = "Fallback" -> generateFallbackData(batchSize)
                           [] OTHER -> <<>>
              success == ~continues /\ Len(records) > 0
          IN  /\ currentTimeout' =
                    CASE strategy = "Retry" -> increaseTimeout(currentTimeout)
                      [] strategy = "Reduce" -> BaseTimeout
                      [] success -> BaseTimeout
                      [] OTHER -> currentTimeout
              /\ currentBatchSize' =
                    IF strategy = "Reduce" THEN reduceBatchSize(currentBatchSize)
                    ELSE currentBatchSize
              /\ attempt' = IF success THEN 0 ELSE a
              /\ allRecords' = IF success THEN allRecords \o records ELSE allRecords
              /\ remaining' = IF success THEN remaining - Len(records) ELSE remaining
              /\ obs' = [obs EXCEPT
                    !.called = TRUE,
                    !.allOk = @ /\ o1.ok,
                    !.allTimeout = @ /\ ~o1.ok /\ isTimeoutError(o1.err)
                                     /\ (second => ~o2.ok /\ isTimeoutError(o2.err)),
                    !.fallbackUsed = @ \/ strategy = "Fallback",
                    !.trace = IF @ = <<>> \/ @[Len(@)] = "timeout"
                              THEN Append(@, CallClass(o1, ctxDone))
                              ELSE @,
                    !.last = CallClass(o1, ctxDone),
                    !.fails = IF success THEN 0 ELSE @ + 1,
                    !.reqs = <<[spec |-> jobSpec, n |-> batchSize, ok |-> o1.ok,
                                live |-> ~ctxDone]>> \o
                             (IF second
                              THEN <<[spec |-> simplifySpec(jobSpec).simplified,
                                      n |-> batchSize, ok |-> o2.ok,
                                      live |-> FALSE]>>
                              ELSE <<>>)]
              /\ jobSpec' = IF second THEN simplifySpec(jobSpec).spec ELSE jobSpec
    /\ UNCHANGED <<pc, result, target, cfgBatch, maxRetries, minBatchSize, toStdout,
                   ctxDone, generated, progress, count, pending, dedupVars, sinkVars,
                   inputs, hist>>

\* A GenerateWithRetry that returns an error whenever it collected fewer
\* records than asked for.
EpisodeReturn_ErrorOnPartial ==
    /\ pc = "retry"
    /\ ~LoopCondition
    /\ IF Len(allRecords) < count
       THEN /\ result' = "err_generate"
            /\ pc' = "defer"
            /\ UNCHANGED <<pending, dedupVars, obs>>
       ELSE LET f == FilterUnique([seen |-> seen, dups |-> duplicateCount], allRecords)
            IN  /\ pending' = f.unique
                /\ seen' = f.d.seen
                /\ duplicateCount' = f.d.dups
                /\ pc' = IF f.unique = <<>> THEN "loop" ELSE "write"
                /\ obs' = [obs EXCEPT !.trace = <<>>, !.last = "none",
                                       !.fails = 0, !.reqs = <<>>]
                /\ UNCHANGED result
    /\ UNCHANGED <<configVars, ctxDone, generated, progress, episodeVars, sinkVars,
                   inputs, hist>>

\* An orchestrator that answers an episode without records by going round
\* its loop again.
EpisodeReturn_SoftFailure ==
    /\ pc = "retry"
    /\ ~LoopCondition
    /\ IF allRecords = <<>>
       THEN /\ pc' = "loop"
            /\ UNCHANGED <<result, pending, dedupVars, obs>>
       ELSE LET f == FilterUnique([seen |-> seen, dups |-> duplicateCount], allRecords)
            IN  /\ pending' = f.unique
                /\ seen' = f.d.seen
                /\ duplicateCount' = f.d.dups
                /\ pc' = IF f.unique = <<>> THEN "loop" ELSE "write"
                /\ obs' = [obs EXCEPT !.trace = <<>>, !.last = "none",
                                       !.fails = 0, !.reqs = <<>>]
                /\ UNCHANGED result
    /\ UNCHANGED <<configVars, ctxDone, generated, progress, episodeVars, sinkVars,
                   inputs, hist>>

\* timeout.go 132-140 and lines 288-293: GenerateWithRetry returns; an empty
\* result is an error that ends the run, anything else goes through
\* deduplicator.ProcessBatch.
EpisodeReturn ==
    /\ pc = "retry"
    /\ ~LoopCondition
    /\ IF allRecords = <<>>
       THEN /\ result' = "err_generate"
            /\ pc' = "defer"
            /\ UNCHANGED <<pending, dedupVars, obs>>
       ELSE LET f == FilterUnique([seen |-> seen, dups |-> duplicateCount], allRecords)
            IN  /\ pending' = f.unique
                /\ seen' = f.d.seen
                /\ duplicateCount' = f.d.dups
                /\ pc' = IF f.unique = <<>> THEN "loop" ELSE "write"
                /\ obs' = [obs EXCEPT !.trace = <<>>, !.last = "none",
                                       !.fails = 0, !.reqs = <<>>]
                /\ UNCHANGED result
    /\ UNCHANGED <<configVars, ctxDone, generated, progress, episodeVars, sinkVars,
                   inputs, hist>>

\* Lines 296-317 and StreamingWriter.Write: hand the next unique record to the
\* writer; a full buffer is flushed, the output accepting n of its records.
WriteRecord ==
    /\ pc = "write"
    /\ pending # <<>>
    /\ LET appended == Append(buffer, Head(pending))
       IN  \E n \in 0..Len(appended) :
              LET full == Len(appended) >= BufferSize
                  f == IF full THEN Flush(appended, n)
                       ELSE [err |-> FALSE, buffer |-> appended, emitted |-> <<>>, calls |-> 0]
              IN  /\ full \/ n = 0
                  /\ buffer' = f.buffer
                  /\ out' = out \o f.emitted
                  /\ obs' = ObsAfterFlush(obs, f, Len(out))
                  /\ IF f.err
                     THEN /\ result' = "err_write"
                          /\ pc' = "defer"
                          /\ UNCHANGED <<generated, progress, pending>>
                     ELSE /\ generated' = generated + 1
                          /\ progress' = generated + 1
                          /\ pending' = Tail(pending)
                          /\ pc' = IF Tail(pending) = <<>> THEN "loop" ELSE "write"
                          /\ UNCHANGED result
    /\ UNCHANGED <<configVars, ctxDone, episodeVars, dedupVars, writerClosed,
                   inputs, hist>>

\* A loop exit that reports success without the final Flush.
Finalize_NoFlush ==
    /\ pc = "loop"
    /\ generated >= target
    /\ result' = "nil"
    /\ pc' = "defer"
    /\ UNCHANGED <<configVars, ctxDone, generated, progress, episodeVars, pending,
                   dedupVars, sinkVars, obs, inputs, hist>>

\* job.Progress.Duplicates: the job is created with Progress{Target: ...}
\* (lines 173-175), which leaves the field at 0, and no statement assigns it.
progressDuplicates == 0

\* Lines 333-356: the loop is left with generated >= target; final Flush.
Finalize ==
    /\ pc = "loop"
    /\ generated >= target
    /\ \E n \in 0..Len(buffer) :
          LET f == Flush(buffer, n)
          IN  /\ buffer' = f.buffer
              /\ out' = out \o f.emitted
              /\ obs' = ObsAfterFlush(obs, f, Len(out))
              /\ result' = IF f.err THEN "err_flush" ELSE "nil"
    /\ pc' = "defer"
    /\ UNCHANGED <<configVars, ctxDone, generated, progress, episodeVars, pending,
                   dedupVars, writerClosed, inputs, hist>>

\* A deferred Close that closes the file without flushing the buffer.
DeferredClose_NoFlush ==
    /\ pc = "defer"
    /\ writerClosed' = TRUE
    /\ pc' = "done"
    /\ UNCHANGED <<result, configVars, ctxDone, generated, progress, episodeVars,
                   pending, dedupVars, buffer, out, obs, inputs, hist>>

\* Line 221, defer writer.Close(): StreamingWriter.Close flushes what the
\* buffer still holds and, if that succeeds, closes the JSONLWriter.
DeferredClose ==
    /\ pc = "defer"
    /\ \E n \in 0..Len(buffer) :
          LET f == Flush(buffer, n)
          IN  /\ buffer' = f.buffer
              /\ out' = out \o f.emitted
              /\ obs' = ObsAfterFlush(obs, f, Len(out))
              /\ writerClosed' = ~f.err
    /\ pc' = "done"
    /\ UNCHANGED <<result, configVars, ctxDone, generated, progress, episodeVars,
                   pending, dedupVars, inputs, hist>>

Next ==
    \/ Startup
    \/ DeadlineElapses
    \/ LoopTimeout
    \/ LoopRequest
    \/ Attempt
    \/ EpisodeReturn
    \/ WriteRecord
    \/ Finalize
    \/ DeferredClose

Spec == Init /\ [][Next]_vars

(***************************************************************************)
(* InterruptSpec: a run that the operator may interrupt (SIGINT/SIGTERM).  *)
(***************************************************************************)
\* No signal handler is installed and the run's context descends from
\* context.Background() (line 200), so no code of the run observes the
\* signal: the process ends where it stands (pc "killed"), runGeneration
\* never returns and its deferred Close never runs.
Interrupt ==
    /\ pc \in {"start", "loop", "retry", "write", "defer"}
    /\ pc' = "killed"
    /\ UNCHANGED <<result, configVars, ctxDone, generated, progress, episodeVars,
                   pending, dedupVars, sinkVars, obs, inputs, hist>>

InterruptNext ==
    \/ Next
    \/ Interrupt

InterruptSpec == Init /\ [][InterruptNext]_vars

(***************************************************************************)
(* DedupSpec: one Deduplicator, fed IsUnique calls on either of two        *)
(* records drawn from RecordInputs.                                        *)
(***************************************************************************)
ListElems == {StrV(<<Ch.one>>), StrV(<<Ch.sp, Ch.one>>), FltV(2), BoolV(TRUE)}
ListInputs == {ListV(xs) : xs \in SeqsOf(ListElems, 0, MaxListLen)}
ScalarInputs == {StrV(<<Ch.one>>), StrV(<<Ch.one, Ch.sp>>), FltV(3), IntV(1), NullV}
InnerObj(x) == ObjV(<<<<KeyB, x>>>>)
NestedInputs ==
    {InnerObj(StrV(<<Ch.one>>)), InnerObj(StrV(<<Ch.tab, Ch.one, Ch.sp>>)),
     ListV(<<InnerObj(StrV(<<Ch.one>>)), StrV(<<Ch.a>>)>>),
     ListV(<<StrV(<<Ch.a>>), InnerObj(StrV(<<Ch.one>>))>>),
     ListV(<<InnerObj(StrV(<<Ch.one, Ch.sp>>)), StrV(<<Ch.sp, Ch.a>>)>>)}
TwoKeyInputs ==
    UNION {{<<<<KeyA, x>>, <<KeyB, y>>>>, <<<<KeyB, y>>, <<KeyA, x>>>>} :
              x \in {StrV(<<Ch.one>>), FltV(2)}, y \in {StrV(<<Ch.one>>), BoolV(TRUE)}}
\* One nested object with two keys, in both iteration orders.
KeyOrderInputs ==
    {ObjV(<<<<KeyA, StrV(<<Ch.one>>)>>, <<KeyB, BoolV(TRUE)>>>>),
     ObjV(<<<<KeyB, BoolV(TRUE)>>, <<KeyA, StrV(<<Ch.one>>)>>>>)}
\* Values json.Marshal cannot serialise.
UnserializableInputs == {NaNV}
RecordInputs ==
    {<<<<KeyA, x>>>> : x \in ListInputs \cup ScalarInputs \cup NestedInputs
                                  \cup KeyOrderInputs \cup UnserializableInputs}
        \cup TwoKeyInputs

DedupInit ==
    /\ PipelineInit
    /\ target = 1 /\ cfgBatch = 1 /\ maxRetries = 1 /\ minBatchSize = 1
    /\ jobSpec = SpecPlain /\ toStdout = FALSE
    /\ inputs \in RecordInputs \X RecordInputs

\* One call d.IsUnique(inputs[i]) on the deduplicator.
CallIsUnique ==
    /\ Len(hist) < MaxCalls
    /\ \E i \in 1..2 :
          LET r == IsUnique([seen |-> seen, dups |-> duplicateCount], inputs[i])
          IN  /\ seen' = r.d.seen
              /\ duplicateCount' = r.d.dups
              /\ hist' = Append(hist, [i |-> i, ret |-> r.ret])
    /\ UNCHANGED <<pc, result, configVars, ctxDone, generated, progress, episodeVars,
                   pending, sinkVars, obs, inputs>>

DedupNext == CallIsUnique

DedupSpec == DedupInit /\ [][DedupNext]_vars

(***************************************************************************)
(* RetrySpec: one call GenerateWithRetry(ctx, spec, count) on a live       *)
(* context, from its entry (timeout.go 62-69) to its return.               *)
(***************************************************************************)
RetryInit ==
    /\ pc = "retry"
    /\ result = "none"
    /\ ctxDone = FALSE
    /\ generated = 0
    /\ progress = 0
    /\ count \in 1..MaxEngineCount
    /\ target = count
    /\ allRecords = <<>>
    /\ remaining = count
    /\ cfgBatch \in 1..MaxEngineBatch
    /\ currentBatchSize = cfgBatch
    /\ attempt = 0
    /\ currentTimeout = BaseTimeout
    /\ maxRetries \in 1..MaxEngineRetries
    /\ minBatchSize \in 1..MaxEngineMinBatch
    /\ jobSpec \in SpecPool
    /\ toStdout = FALSE
    /\ pending = <<>>
    /\ seen = {}
    /\ duplicateCount = 0
    /\ buffer = <<>>
    /\ out = <<>>
    /\ writerClosed = FALSE
    /\ obs = ObsInit
    /\ inputs = <<>>
    /\ hist = <<>>

\* timeout.go 132-140: GenerateWithRetry returns to its caller, with an error
\* exactly when it collected nothing (result is the returned error here).
Return ==
    /\ pc = "retry"
    /\ ~LoopCondition
    /\ result' = IF allRecords = <<>> THEN "err_generate" ELSE "nil"
    /\ pc' = "returned"
    /\ UNCHANGED <<configVars, ctxDone, generated, progress, episodeVars, pending,
                   dedupVars, sinkVars, obs, inputs, hist>>

RetryNext ==
    \/ Attempt
    \/ Return

RetrySpec == RetryInit /\ [][RetryNext]_vars

\* The loop of GenerateWithRetry is sequential code: an iteration that can run
\* does run, and so does the return.
FairRetrySpec ==
    /\ RetryInit
    /\ [][RetryNext]_vars
    /\ WF_vars(Attempt)
    /\ WF_vars(Return)

(***************************************************************************)
(* SinkSpec: one StreamingWriter and the calls a client can make on it:    *)
(* Write and Flush until a Close has succeeded, Close at any time.         *)
(* result is the error the latest call returned ("nil" for none), pc is    *)
(* "sink" until a Close has returned nil and "closed" from then on.        *)
(***************************************************************************)
\* JSONLWriter.Close: os.Stdout is never closed; any other writer is an
\* *os.File (possibly behind a gzip.Writer) whose Close returns an error when
\* the file has been closed before.
JSONLWriterClose(closed, stdout) ==
    IF stdout THEN [err |-> FALSE, closed |-> closed]
    ELSE [err |-> closed, closed |-> TRUE]

SinkInit ==
    /\ pc = "sink"
    /\ result = "none"
    /\ toStdout \in BOOLEAN
    /\ buffer = <<>>
    /\ out = <<>>
    /\ writerClosed = FALSE
    /\ target = 1 /\ cfgBatch = 1 /\ maxRetries = 1 /\ minBatchSize = 1
    /\ jobSpec = SpecPlain
    /\ ctxDone = FALSE
    /\ generated = 0
    /\ progress = 0
    /\ count = 0
    /\ allRecords = <<>>
    /\ remaining = 0
    /\ currentBatchSize = 0
    /\ attempt = 0
    /\ currentTimeout = BaseTimeout
    /\ pending = <<>>
    /\ seen = {}
    /\ duplicateCount = 0
    /\ obs = ObsInit
    /\ inputs = <<>>
    /\ hist = <<>>

\* StreamingWriter.Write(record): append, and flush when the buffer is full,
\* the output accepting n of the buffered records.
SinkWrite ==
    /\ pc = "sink"
    /\ Len(out) + Len(buffer) < MaxSinkWrites
    /\ \E record \in RecordPool :
          LET appended == Append(buffer, record)
          IN  \E n \in 0..Min(Len(appended), MaxSinkOut - Len(out)) :
                 LET full == Len(appended) >= BufferSize
                     f == IF full THEN Flush(appended, n)
                          ELSE [err |-> FALSE, buffer |-> appended, emitted |-> <<>>,
                                calls |-> 0]
                 IN  /\ full \/ n = 0
                     /\ buffer' = f.buffer
                     /\ out' = out \o f.emitted
                     /\ obs' = ObsAfterFlush(obs, f, Len(out))
                     /\ result' = IF f.err THEN "err_write" ELSE "nil"
    /\ UNCHANGED <<pc, configVars, ctxDone, generated, progress, episodeVars, pending,
                   dedupVars, writerClosed, inputs, hist>>

\* StreamingWriter.Flush().
SinkFlush ==
    /\ pc = "sink"
    /\ \E n \in 0..Min(Len(buffer), MaxSinkOut - Len(out)) :
          LET f == Flush(buffer, n)
          IN  /\ buffer' = f.buffer
              /\ out' = out \o f.emitted
              /\ obs' = ObsAfterFlush(obs, f, Len(out))
              /\ result' = IF f.err THEN "err_flush" ELSE "nil"
    /\ UNCHANGED <<pc, configVars, ctxDone, generated, progress, episodeVars, pending,
                   dedupVars, writerClosed, inputs, hist>>

\* StreamingWriter.Close(): Flush, and if that succeeded JSONLWriter.Close.
SinkClose ==
    /\ pc \in {"sink", "closed"}
    /\ \E n \in 0..Min(Len(buffer), MaxSinkOut - Len(out)) :
          LET f == Flush(buffer, n)
              c == JSONLWriterClose(writerClosed, toStdout)
          IN  /\ buffer' = f.buffer
              /\ out' = out \o f.emitted
              /\ obs' = ObsAfterFlush(obs, f, Len(out))
              /\ writerClosed' = IF f.err THEN writerClosed ELSE c.closed
              /\ result' = CASE f.err -> "err_flush"
                              [] c.err -> "err_close"
                              [] OTHER -> "nil"
              /\ pc' = IF f.err \/ c.err THEN pc ELSE "closed"
    /\ UNCHANGED <<configVars, ctxDone, generated, progress, episodeVars, pending,
                   dedupVars, inputs, hist>>

SinkNext ==
    \/ SinkWrite
    \/ SinkFlush
    \/ SinkClose

SinkSpec == SinkInit /\ [][SinkNext]_vars

(***************************************************************************)
(* Properties.                                                             *)
(***************************************************************************)
Digest(record) == canonicalHash(record)
IsError(r) == r \notin {"none", "nil"}

\* C1: in every reachable state of a run with target N the number of records
\* handed to the sink (generated) is at most N, whatever the number of
\* records a backend response contains.
C1_GeneratedAtMostTarget == generated <= target

\* C2: runGeneration returns nil only when exactly target unique records
\* have been written, and a run that ends with fewer than target records
\* written returns a non-nil error.
C2_SuccessOnlyWithExactTarget ==
    pc = "done" =>
        /\ result = "nil" => (generated = target /\ Len(out) = target)
        /\ Len(out) < target => IsError(result)

C4_AlwaysSucceedingExactCount ==
    (pc = "done" /\ obs.called /\ obs.allOk /\ obs.firstFail = 0 /\ ~ctxDone) =>
        (result = "nil" /\ Len(out) = target)

\* C5: with a backend that times out on every call the engine reaches the
\* fallback synthesis and the run still ends successfully with output.
C5_AlwaysTimeoutFallsBack ==
    (pc = "done" /\ obs.called /\ obs.allTimeout /\ obs.firstFail = 0 /\ ~ctxDone) =>
        (obs.fallbackUsed /\ result = "nil" /\ Len(out) > 0)

\* C6: if the k-th write of a record to the output fails, the run aborts with
\* an error after exactly k-1 successful writes and with generated = k-1.
C6_SinkFailureCount ==
    (pc = "done" /\ obs.firstFail > 0 /\ result \in {"err_write", "err_flush"}) =>
        (generated = obs.firstFail - 1 /\ Len(out) = obs.firstFail - 1)

\* C7: once a write to the output has failed, the run makes no further write
\* attempt on it, on any path up to and including the deferred Close.
C7_NoWriteAfterFailure == ~obs.retried

(***************************************************************************)
(* Relations between the two input records of DedupSpec, stated without    *)
(* reference to the canonicalisation.                                      *)
(***************************************************************************)
\* s without its leading and trailing whitespace, by position.
StripWs(s) ==
    LET idx == {i \in 1..Len(s) : ~IsSpace(s[i])}
    IN  IF idx = {} THEN <<>>
        ELSE SubSeq(s, CHOOSE i \in idx : \A j \in idx : i <= j,
                       CHOOSE i \in idx : \A j \in idx : i >= j)

\* x and y differ at most by leading/trailing whitespace of string values.
RECURSIVE WsEquivValue(_, _)
WsEquivValue(x, y) ==
    /\ x.k = y.k
    /\ CASE x.k = "string" -> StripWs(x.v) = StripWs(y.v)
         [] x.k = "list" ->
               /\ Len(x.v) = Len(y.v)
               /\ \A i \in 1..Len(x.v) : WsEquivValue(x.v[i], y.v[i])
         [] x.k = "map" ->
               /\ Len(x.v) = Len(y.v)
               /\ \A i \in 1..Len(x.v) :
                     x.v[i][1] = y.v[i][1] /\ WsEquivValue(x.v[i][2], y.v[i][2])
         [] OTHER -> x.v = y.v

WsEquiv(r1, r2) == WsEquivValue(ObjV(r1), ObjV(r2))

\* Number of positions of xs that hold e.
Occurrences(xs, e) == Cardinality({i \in 1..Len(xs) : xs[i] = e})

IsScalarList(x) ==
    x.k = "list" /\ \A i \in 1..Len(x.v) : x.v[i].k \in {"string", "int", "float64", "bool"}

\* r1 and r2 have the same keys in the same places and the same values,
\* except that lists of strings/ints/floats/bools may be reordered.
PermEquiv(r1, r2) ==
    /\ Len(r1) = Len(r2)
    /\ \A i \in 1..Len(r1) :
          /\ r1[i][1] = r2[i][1]
          /\ \/ r1[i][2] = r2[i][2]
             \/ /\ IsScalarList(r1[i][2]) /\ IsScalarList(r2[i][2])
                /\ Len(r1[i][2].v) = Len(r2[i][2].v)
                /\ \A j \in 1..Len(r1[i][2].v) :
                      Occurrences(r1[i][2].v, r1[i][2].v[j])
                          = Occurrences(r2[i][2].v, r1[i][2].v[j])

\* Both input records have been through IsUnique.
BothFed == {hist[j].i : j \in 1..Len(hist)} = {1, 2}

\* C8: a call of IsUnique returns true iff no earlier call was made with a
\* record of the same canonical digest, and the digests of all records fed
\* so far are in the seen set.
C8_IsUniqueIffFirstOfDigest ==
    /\ \A j \in 1..Len(hist) :
          hist[j].ret = (\A i \in 1..(j - 1) :
                             Digest(inputs[hist[i].i]) # Digest(inputs[hist[j].i]))
    /\ seen = {Digest(inputs[hist[j].i]) : j \in 1..Len(hist)}

\* C8 witness: two different records of one digest; the first call returned
\* true, the second and the third false.
C8_Witness ==
    /\ Len(hist) = 3
    /\ inputs[1] # inputs[2]
    /\ hist[1].i # hist[2].i
    /\ hist[1].ret /\ ~hist[2].ret /\ ~hist[3].ret

\* C9: two records that differ only in the order of the elements of a list of
\* strings, integers, floats or booleans have the same canonical digest.
C9_ScalarListOrderIrrelevant ==
    (PermEquiv(inputs[1], inputs[2]) /\ BothFed) => Cardinality(seen) = 1

\* C10: two records that differ only by leading or trailing whitespace in
\* string values (top level, nested objects, lists) have the same digest, and
\* the second one fed is rejected by IsUnique.
C10_WhitespaceIrrelevant ==
    (WsEquiv(inputs[1], inputs[2]) /\ BothFed) =>
        /\ Cardinality(seen) = 1
        /\ \A j \in 2..Len(hist) : ~hist[j].ret

\* C10 witness: two records that differ (only) in whitespace inside a nested
\* value have both been fed and the second was rejected.
C10_Witness ==
    /\ inputs[1] # inputs[2]
    /\ WsEquiv(inputs[1], inputs[2])
    /\ inputs[1][1][2].k \in {"list", "map"}
    /\ Len(hist) = 2 /\ BothFed
    /\ hist[1].ret /\ ~hist[2].ret

\* x and y hold the same key/value pairs at every nesting level: maps are
\* compared as sets of pairs, lists position by position.
RECURSIVE KeyEquivValue(_, _)
KeyEquivValue(x, y) ==
    /\ x.k = y.k
    /\ CASE x.k = "map" ->
               /\ Len(x.v) = Len(y.v)
               /\ \A i \in 1..Len(x.v) : \E j \in 1..Len(y.v) :
                     x.v[i][1] = y.v[j][1] /\ KeyEquivValue(x.v[i][2], y.v[j][2])
         [] x.k = "list" ->
               /\ Len(x.v) = Len(y.v)
               /\ \A i \in 1..Len(x.v) : KeyEquivValue(x.v[i], y.v[i])
         [] OTHER -> x.v = y.v

KeyEquiv(r1, r2) == KeyEquivValue(ObjV(r1), ObjV(r2))

\* C11: two records with the same key/value pairs at every nesting level,
\* whatever the order their keys are iterated in, have the same canonical
\* digest.
C11_KeyOrderIrrelevant ==
    (KeyEquiv(inputs[1], inputs[2]) /\ BothFed) =>
        /\ Digest(inputs[1]) = Digest(inputs[2])
        /\ Cardinality(seen) = 1

\* C11 witness: the same pairs in two different key orders (top level or
\* nested) have both been fed and the second was rejected.
C11_Witness ==
    /\ inputs[1] # inputs[2]
    /\ KeyEquiv(inputs[1], inputs[2])
    /\ Len(hist) = 2 /\ BothFed
    /\ hist[1].ret /\ ~hist[2].ret

\* C12: canonicalising an already canonical record changes nothing (and so
\* leaves the digest unchanged), and the digest of one record is the same
\* every time it is computed: a record fed again is always rejected.
C12_CanonicalizeIdempotent ==
    /\ \A i \in 1..2 :
          /\ canonicalize(canonicalize(inputs[i])) = canonicalize(inputs[i])
          /\ Digest(canonicalize(inputs[i])) = Digest(inputs[i])
    /\ \A j, k \in 1..Len(hist) : (j < k /\ hist[j].i = hist[k].i) => ~hist[k].ret

\* C12 witness: a record that is not in canonical form (a list that the
\* canonicalisation reorders) was fed twice; the second call was rejected.
C12_Witness ==
    /\ Len(hist) = 2
    /\ hist[1].i = hist[2].i
    /\ inputs[hist[1].i][1][2].k = "list"
    /\ canonicalize(inputs[hist[1].i]) # inputs[hist[1].i]
    /\ hist[1].ret /\ ~hist[2].ret

\* The digests of records, position by position.
RECURSIVE Digests(_)
Digests(records) ==
    IF records = <<>> THEN <<>>
    ELSE <<Digest(Head(records))>> \o Digests(Tail(records))

\* The positions whose digest is neither in the index idx nor carried by an
\* earlier position.
FirstOccurrences(idx, digests) ==
    {i \in 1..Len(digests) :
        /\ digests[i] \notin idx
        /\ \A j \in 1..(i - 1) : digests[j] # digests[i]}

\* The subsequence of records at the positions in keep, in the original order.
RECURSIVE Pick(_, _, _)
Pick(records, keep, i) ==
    IF i > Len(records) THEN <<>>
    ELSE (IF i \in keep THEN <<records[i]>> ELSE <<>>) \o Pick(records, keep, i + 1)

\* The step in which runGeneration passes an episode's records through
\* deduplicator.ProcessBatch.
ProcessBatchStep == pc = "retry" /\ pc' \in {"loop", "write"}

\* C13: FilterUnique returns the input records whose digest was seen neither
\* before the call nor earlier in the input, in input order; the index gains
\* their digests and the duplicate count grows by one per dropped record.
C13_FilterUniqueIsOrderedFirstOccurrences ==
    [][ProcessBatchStep =>
          LET digests == Digests(allRecords)
              keep == FirstOccurrences(seen, digests)
          IN  /\ pending' = Pick(allRecords, keep, 1)
              /\ seen' = seen \cup {digests[i] : i \in 1..Len(digests)}
              /\ duplicateCount' = duplicateCount + Len(allRecords) - Cardinality(keep)
       ]_vars

\* C13 witness: ProcessBatch has returned two survivors of a longer batch
\* (a record was dropped and counted).
C13_Witness ==
    /\ pc = "write"
    /\ generated = 0 /\ Len(out) = 0 /\ buffer = <<>>
    /\ Len(pending) = 2
    /\ Len(allRecords) = 3
    /\ duplicateCount = 1

\* A record whose canonical form json.Marshal rejects.
Unserializable(record) == ~jsonSerializable(ObjV(canonicalize(record)))

\* C14: a record whose digest cannot be computed is never admitted: every
\* IsUnique call made with it returns false.
C14_UnserializableNeverAdmitted ==
    \A j \in 1..Len(hist) : Unserializable(inputs[hist[j].i]) => ~hist[j].ret

\* GetStats: the counters the BatchDeduplicator reports.
GetStats(idx, dups) ==
    [UniqueRecords |-> Cardinality(idx), DuplicateRecords |-> dups,
     TotalProcessed |-> Cardinality(idx) + dups]

\* C15: in every step of a run the deduplication index keeps every digest it
\* holds and none of the reported counters decreases.
C15_DedupMonotonic ==
    [][/\ seen \subseteq seen'
       /\ GetStats(seen', duplicateCount').UniqueRecords
             >= GetStats(seen, duplicateCount).UniqueRecords
       /\ GetStats(seen', duplicateCount').DuplicateRecords
             >= GetStats(seen, duplicateCount).DuplicateRecords
       /\ GetStats(seen', duplicateCount').TotalProcessed
             >= GetStats(seen, duplicateCount).TotalProcessed
      ]_vars

\* C15 witness: the index has grown in two separate ProcessBatch calls and a
\* duplicate has been counted.
C15_Witness ==
    /\ pc = "write"
    /\ generated > 0
    /\ Cardinality(seen) = 2
    /\ pending # <<>>
    /\ duplicateCount > 0

\* C16: in an episode whose configured batch size is above minBatchSize and
\* whose first two generateBatch calls time out while the third succeeds:
\* after the first failure the timeout is larger and the batch size is the
\* configured one; after the second the batch size is smaller and the timeout
\* is back at BaseTimeout; the third call's records are accepted and the
\* episode is no failure.
C16_TwoTimeoutsThenSuccess ==
    cfgBatch > minBatchSize =>
        /\ obs.trace = <<"timeout">> =>
              /\ attempt = 1
              /\ currentTimeout > BaseTimeout
              /\ currentBatchSize = cfgBatch
        /\ obs.trace = <<"timeout", "timeout">> =>
              /\ attempt = 2
              /\ currentBatchSize < cfgBatch
              /\ currentTimeout = BaseTimeout
        /\ obs.trace = <<"timeout", "timeout", "ok">> =>
              /\ allRecords # <<>>
              /\ currentBatchSize < cfgBatch
              /\ result # "err_generate"
        /\ (obs.trace = <<"timeout", "timeout", "ok">> /\ obs.last = "ok"
                /\ Len(allRecords) = 1) =>
              (attempt = 0 /\ currentTimeout = BaseTimeout)

\* C16 witness: the third call of an episode has just succeeded after two
\* timeouts, with maxRetries = 3 and the batch size reduced.
C16_Witness ==
    /\ pc = "retry"
    /\ maxRetries = 3
    /\ cfgBatch > minBatchSize
    /\ obs.trace = <<"timeout", "timeout", "ok">>
    /\ obs.last = "ok"
    /\ attempt = 0
    /\ currentBatchSize < cfgBatch
    /\ Len(allRecords) = 1

\* C17: in every reachable state the StreamingWriter's buffer holds at most
\* bufferSize records, whatever the target and the number of records written.
C17_BufferBounded == Len(buffer) <= BufferSize

\* C17 witness: more records than the buffer holds have been handed to the
\* writer; the buffer was flushed when it became full and is filling again.
C17_Witness ==
    /\ generated > BufferSize
    /\ Len(out) = BufferSize
    /\ buffer # <<>>

EpisodeCutByDeadline == obs.trace # <<>> /\ obs.trace[1] = "ctx"

\* C19: a run that ended because the overall deadline elapsed ended with the
\* timed-out outcome, never with the exhausted-retries outcome.
C19_DeadlineOutcomeDistinct ==
    (pc = "done" /\ ctxDone /\ EpisodeCutByDeadline) => result = "err_timeout"

\* A step in which GenerateWithRetry calls generateBatch (every iteration of
\* its loop changes attempt or appends to allRecords).
BackendCallStep ==
    pc = "retry" /\ <<attempt, allRecords>>' # <<attempt, allRecords>>

\* A step in which runGeneration enters GenerateWithRetry for a new batch.
NewEpisodeStep == pc = "loop" /\ pc' = "retry"

\* s is an initial segment of t.
IsPrefix(s, t) == Len(s) <= Len(t) /\ SubSeq(t, 1, Len(s)) = s

\* C20: once the overall deadline has elapsed runGeneration starts no new
\* episode and the records already in the output stay there; and once a
\* generateBatch call has been ended by the expired deadline (the call that
\* was in flight), GenerateWithRetry makes no further generateBatch call.
C20_NoRequestAfterDeadline ==
    [][/\ ctxDone => (~NewEpisodeStep /\ IsPrefix(out, out'))
       /\ (ctxDone /\ obs.last = "ctx") => ~BackendCallStep
      ]_vars

\* C21: success is reported only after the final Flush returned without error:
\* from the moment runGeneration's result is nil the sink's buffer is empty, no
\* write has failed, every accepted record (at least target of them) has been
\* handed to the underlying writer, and once the run has returned the sink is
\* closed.
C21_SuccessOnlyAfterFlush ==
    result = "nil" =>
        /\ pc \in {"defer", "done"}
        /\ buffer = <<>>
        /\ obs.firstFail = 0
        /\ Len(out) = generated
        /\ Len(out) >= target
        /\ (pc = "done" => writerClosed)

\* A successful run whose last record sat in the buffer until the final Flush.
C21_Witness ==
    /\ pc = "done"
    /\ result = "nil"
    /\ target = 1
    /\ Len(out) = 1
    /\ writerClosed

\* C22: every GenerateWithRetry call terminates whatever the backend answers:
\* the episode never has more than maxRetries consecutive iterations without
\* records, every generateBatch call runs under a timeout between BaseTimeout
\* and MaxTimeout, and the call returns.
C22_EpisodeTerminates ==
    /\ [](obs.fails <= maxRetries)
    /\ [](BaseTimeout <= currentTimeout /\ currentTimeout <= MaxTimeout)
    /\ ((pc = "retry") ~> (pc # "retry"))

\* An episode that collected records, then failed maxRetries = 3 times in a
\* row and is about to return.
C22_Witness ==
    /\ pc = "retry"
    /\ ~LoopCondition
    /\ maxRetries = 3
    /\ obs.fails = 3
    /\ allRecords # <<>>
    /\ remaining > 0

\* C23: GenerateWithRetry never changes the specification it was handed (its
\* fields, temperature and domain, nor the configured batch size), also in
\* iterations that build the simplified copy; the first request of every
\* iteration carries the caller's specification, and a second request (the one
\* carrying the copy) is made only by an iteration whose first request failed.
C23_SpecNeverMutated ==
    /\ [][jobSpec' = jobSpec /\ cfgBatch' = cfgBatch]_vars
    /\ [](obs.reqs # <<>> =>
            /\ obs.reqs[1].spec = jobSpec
            /\ (Len(obs.reqs) = 2 => obs.last \in {"timeout", "parse"}))

\* After an iteration that built and used the simplified copy (second timeout
\* at batch size 1), the next request carried the caller's specification.
C23_Witness ==
    /\ cfgBatch = 1
    /\ jobSpec = SpecNoRequired
    /\ obs.trace = <<"timeout", "timeout", "ok">>
    /\ obs.reqs = <<[spec |-> SpecNoRequired, n |-> 1, ok |-> TRUE, live |-> TRUE]>>

\* C24: Close is idempotent: a Close made after a Close has succeeded leaves
\* the output as it is and returns no error.
C24_CloseIdempotent ==
    [][(pc = "closed" /\ SinkClose) => (out' = out /\ result' = "nil")]_vars

\* C25: a run the operator interrupts makes no further backend request and
\* ends with the outcome "interrupted", which is neither success (nil) nor a
\* failure (an error).
C25_InterruptedOutcome ==
    pc = "killed" => result = "interrupted"

\* C26: when the first attempt of an episode (attempt 1) fails with a timeout,
\* the engine retries: no other request in that iteration, the batch size as
\* it was, and the timeout multiplied by BackoffMultiplier, capped at
\* MaxTimeout.
C26_FirstTimeoutRetries ==
    [][(BackendCallStep /\ attempt = 0 /\ obs'.last = "timeout") =>
          /\ attempt' = 1
          /\ Len(obs'.reqs) = 1
          /\ currentBatchSize' = currentBatchSize
          /\ currentTimeout' = Min(currentTimeout * BackoffMultiplier, MaxTimeout)]_vars

\* The first attempt at batch size 3 timed out: batch size 3, timeout doubled.
C26_Witness ==
    /\ pc = "retry"
    /\ attempt = 1
    /\ obs.last = "timeout"
    /\ currentBatchSize = 3
    /\ currentTimeout = BaseTimeout * BackoffMultiplier

\* C27: when an attempt after the first fails with a timeout while the batch
\* size is above minBatchSize, the batch size becomes half of what it was but
\* not less than minBatchSize, and the timeout goes back to BaseTimeout.
C27_ShrinkFlooredAtMinBatch ==
    [][(BackendCallStep /\ attempt >= 1 /\ obs'.last = "timeout"
           /\ currentBatchSize > minBatchSize) =>
          /\ currentBatchSize' = Max(minBatchSize, currentBatchSize \div 2)
          /\ currentBatchSize' >= minBatchSize
          /\ currentTimeout' = BaseTimeout]_vars

\* d is a reduced-difficulty version of spec: only the required fields of spec
\* or, when spec has none, at most MaxKeptFields leading fields; a temperature
\* no higher than TemperatureCap nor than that of spec.
IsReducedDifficulty(d, spec) ==
    LET required == {i \in 1..Len(spec.fields) : spec.fields[i].required}
    IN  /\ d.temperature <= TemperatureCap
        /\ d.temperature <= spec.temperature
        /\ IF required = {}
           THEN /\ Len(d.fields) <= MaxKeptFields
                /\ IsPrefix(d.fields, spec.fields)
           ELSE /\ \A i \in 1..Len(d.fields) : d.fields[i].required
                /\ Len(d.fields) = Cardinality(required)
                /\ \A i \in required :
                      \E j \in 1..Len(d.fields) : d.fields[j] = spec.fields[i]

\* The iteration just made took the Simplify branch: after its first request
\* it made a second one, with a reduced-difficulty specification.
DegradedRequestMade ==
    /\ Len(obs'.reqs) = 2
    /\ IsReducedDifficulty(obs'.reqs[2].spec, jobSpec)
    /\ obs'.reqs[2].n = obs'.reqs[1].n

\* C28 (as stated): whenever a generateBatch call fails with a timeout while
\* the batch size is at most minBatchSize, the engine takes the Simplify branch
\* and makes a request with the reduced-difficulty specification.
C28_TimeoutAtMinBatchDegrades ==
    [][(BackendCallStep /\ obs'.last = "timeout" /\ currentBatchSize <= minBatchSize)
          => DegradedRequestMade]_vars

\* C28 (amended): when an attempt after the first fails with a timeout while
\* the batch size is at most minBatchSize, the engine takes the Simplify branch
\* and makes a request with the reduced-difficulty specification.
C28_LaterTimeoutAtMinBatchDegrades ==
    [][(BackendCallStep /\ attempt >= 1 /\ obs'.last = "timeout"
           /\ currentBatchSize <= minBatchSize)
          => DegradedRequestMade]_vars

\* The second attempt at batch size 1 timed out and a request was made with
\* the first three of the four optional fields.
C28_Witness ==
    /\ pc = "retry"
    /\ attempt = 2
    /\ obs.last = "timeout"
    /\ currentBatchSize = 1
    /\ jobSpec = SpecNoRequired
    /\ Len(obs.reqs) = 2
    /\ Len(obs.reqs[2].spec.fields) = MaxKeptFields

\* C29: when the request made with the simplified specification fails, the
\* engine falls back: generateFallbackData supplies the records asked for, as
\* many as the request asked for, and no further backend call is needed for
\* them.
C29_DegradedFailureFallsBack ==
    [][(BackendCallStep /\ Len(obs'.reqs) = 2 /\ ~obs'.reqs[2].ok) =>
          /\ obs'.fallbackUsed
          /\ Len(allRecords') = Len(allRecords) + obs'.reqs[2].n]_vars

\* C30: when attempt 1 or 2 fails with a parsing error, the engine retries
\* with the batch size and the timeout both as they were.
C30_EarlyParseErrorRetriesUnchanged ==
    [][(BackendCallStep /\ attempt + 1 <= 2 /\ obs'.last = "parse") =>
          /\ attempt' = attempt + 1
          /\ Len(obs'.reqs) = 1
          /\ currentBatchSize' = currentBatchSize
          /\ currentTimeout' = currentTimeout]_vars

\* C31: when an attempt after the second fails with a parsing error, the
\* engine takes the Simplify branch and makes a request with the
\* reduced-difficulty specification.
C31_LateParseErrorDegrades ==
    [][(BackendCallStep /\ attempt >= 2 /\ obs'.last = "parse")
          => DegradedRequestMade]_vars

\* The third attempt of an episode failed with a parsing error and a request
\* was made with the required field only.
C31_Witness ==
    /\ pc = "retry"
    /\ attempt = 3
    /\ obs.last = "parse"
    /\ jobSpec = SpecRequired
    /\ Len(obs.reqs) = 2
    /\ obs.reqs[2].spec.fields = <<Field("b", TRUE)>>

C33_ExhaustedIsHardFailure ==
    /\ (pc = "retry" /\ obs.fails = maxRetries /\ allRecords = <<>>) => ~LoopCondition
    /\ (pc # "retry" /\ obs.fails = maxRetries /\ allRecords = <<>>) =>
          /\ result = "err_generate"
          /\ pc \in {"defer", "done"}
    /\ result = "err_generate" => (obs.fails = maxRetries /\ allRecords = <<>>)

\* The first episode of a run failed three times out of maxRetries = 3 within
\* the deadline and the run has returned the error.
C33_Witness ==
    /\ pc = "done"
    /\ result = "err_generate"
    /\ maxRetries = 3
    /\ obs.fails = 3
    /\ generated = 0
    /\ ~ctxDone

\* C34: after a generateBatch call that returned records the attempt counter
\* is 0 and the timeout is BaseTimeout again, and every episode starts with
\* attempt 0, timeout BaseTimeout and the configured batch size, whatever the
\* episodes before it did.
C34_ResetOnSuccessAndNewEpisode ==
    pc = "retry" =>
        /\ obs.last = "ok" => (attempt = 0 /\ currentTimeout = BaseTimeout)
        /\ obs.last = "none" =>
              /\ attempt = 0
              /\ currentTimeout = BaseTimeout
              /\ currentBatchSize = cfgBatch
              /\ allRecords = <<>>
              /\ remaining = count

\* The second episode of a run (one record is written already) starts with
\* the configured batch size 2.
C34_Witness ==
    /\ pc = "retry"
    /\ obs.last = "none"
    /\ generated = 1
    /\ target = 2
    /\ cfgBatch = 2
    /\ currentBatchSize = 2
    /\ maxRetries = 3

\* C35: every request runGeneration makes to the retry engine asks for
\* min(configured batch size, target - generated) records, and it is made
\* only while generated < target.
C35_RequestedQuantity ==
    pc = "retry" =>
        /\ generated < target
        /\ count = Min(cfgBatch, target - generated)
        /\ count >= 1

\* With one of two records written and batch size 2, the episode asks for 1.
C35_Witness ==
    /\ pc = "retry"
    /\ generated = 1
    /\ target = 2
    /\ cfgBatch = 2
    /\ count = 1

\* C36: after each written record job.Progress is up to date: Generated is
\* the number of records the sink has accepted and Duplicates is the number
\* of duplicates the deduplicator has discarded so far.
C36_ProgressUpToDate ==
    [][(generated' = generated + 1) =>
          /\ progress' = generated'
          /\ progress' = Len(out') + Len(buffer')
          /\ progressDuplicates = duplicateCount']_vars

\* C37: the request made with the simplified specification runs on a context
\* that is still live when the request is made (neither cancelled nor
\* expired), so that a backend answering in time can deliver records.
C37_DegradedRequestOnLiveContext ==
    Len(obs.reqs) = 2 => obs.reqs[2].live

\* C38: once GenerateWithRetry has returned, it returned an error exactly if
\* the episode collected no record; an episode that collected fewer records
\* than asked for returned them without error and the run goes on (its
\* records are written, the loop is re-entered).
C38_ErrorIffNoRecords ==
    (pc \notin {"start", "retry"} /\ obs.called) =>
        /\ result = "err_generate" <=> allRecords = <<>>
        /\ (pc \in {"write", "loop"} /\ Len(allRecords) < count) => result = "none"

\* An episode asked for 2 records, collected 1 and then ran out of attempts:
\* no error, the record is about to be written.
C38_Witness ==
    /\ pc = "write"
    /\ result = "none"
    /\ count = 2
    /\ Len(allRecords) = 1
    /\ attempt = maxRetries
    /\ pending # <<>>

\* C39: every generateBatch call asks for n records with 1 <= n <= remaining,
\* and as long as no call returns more records than it was asked for,
\* remaining stays at 0 or above and the episode holds at most count records.
C39_RequestsWithinRemaining ==
    [][BackendCallStep =>
          /\ \A i \in 1..Len(obs'.reqs) :
                1 <= obs'.reqs[i].n /\ obs'.reqs[i].n <= remaining
          /\ (Len(allRecords') - Len(allRecords) <= obs'.reqs[1].n) =>
                /\ remaining' >= 0
                /\ Len(allRecords') <= count
          /\ Len(allRecords') + remaining' = count]_vars

\* With 1 of 2 records collected and batch size 3, the latest call asked for
\* the 1 record still missing and got it.
C39_Witness ==
    /\ pc = "retry"
    /\ count = 2
    /\ currentBatchSize = 3
    /\ Len(allRecords) = 2
    /\ remaining = 0
    /\ obs.reqs # <<>>
    /\ obs.reqs[1].n = 1
    /\ obs.reqs[1].ok

\* C40: every generateBatch call runs under a timeout between BaseTimeout and
\* MaxTimeout, and so does the timeout the iteration leaves behind, after any
\* sequence of failures and successes.
C40_TimeoutWithinBounds ==
    [][BackendCallStep =>
          /\ BaseTimeout <= currentTimeout /\ currentTimeout <= MaxTimeout
          /\ BaseTimeout <= currentTimeout' /\ currentTimeout' <= MaxTimeout
          /\ currentTimeout' \in {BaseTimeout, currentTimeout,
                                  Min(currentTimeout * BackoffMultiplier, MaxTimeout)}]_vars

\* Five failures in a row: the timeout reached the ceiling after the fourth
\* and the fifth call ran under it.
C40_Witness ==
    /\ pc = "retry"
    /\ attempt = 5
    /\ obs.fails = 5
    /\ obs.trace = <<"error">>
    /\ obs.last = "error"
    /\ currentTimeout = MaxTimeout

====
